---------------------------- MODULE Spec2Model ----------------------------
(***************************************************************************)
(* Model of the BH1750 ambient-light sensor driver (package bh1750, listed *)
(* in src/README.md lines 92-394).  The driver is a plain object with      *)
(* three fields; every method is a blocking sequence of bus writes, a      *)
(* sleep and a bus read, so each method is one atomic action.  The bus is  *)
(* the external collaborator: whether a transfer succeeds, and which two   *)
(* bytes a read delivers, are inputs of the action.                        *)
(***************************************************************************)
EXTENDS Integers, Sequences, FiniteSets, TLC

VARIABLES
    lastCmd,         \* BH1750.lastCmd        (byte)
    lastResolution,  \* BH1750.lastResolution (ResolutionMode, an int)
    factor,          \* BH1750.factor         (byte)
    call,            \* what the most recent method call did and returned
    issued,          \* history: <<b>> for the last byte written successfully, <<>> if none
    issuer,          \* history: the most recent call that put a command on the bus
    okFactor,        \* history: factor of the last ChangeSensivityFactor that returned nil
    session,         \* history: the continuous measurement the calls so far amount to
    input            \* inputs fixed by Init for the exhaustive specifications

driver == <<lastCmd, lastResolution, factor>>
vars == <<lastCmd, lastResolution, factor, call, issued, issuer, okFactor, session,
          input>>

---------------------------------------------------------------------------
(* Command bytes, src/README.md 104-148 *)
CMD_POWER_DOWN == 0
CMD_POWER_ON == 1
CMD_RESET == 7
CMD_CONTINUOUSLY_H_RES_MODE == 16
CMD_CONTINUOUSLY_H_RES_MODE2 == 17
CMD_CONTINUOUSLY_L_RES_MODE == 19
CMD_ONE_TIME_H_RES_MODE == 32
CMD_ONE_TIME_H_RES_MODE2 == 33
CMD_ONE_TIME_L_RES_MODE == 35
CMD_CHANGE_MEAS_TIME_HIGH == 64
CMD_CHANGE_MEAS_TIME_LOW == 96

(* ResolutionMode, iota + 1 *)
LowResolution == 1
HighResolution == 2
HighestResolution == 3

(* limits of ChangeSensivityFactor *)
minValue == 31
maxValue == 254

(* time.Duration counts nanoseconds *)
Microsecond == 1000
Millisecond == 1000000

Byte == 0..255

(* The resolution arguments tried: 0 (the zero value) and MaxResolutionArg  *)
(* stand for the ResolutionMode values that are none of the three declared. *)
MaxResolutionArg == 4
ResolutionArgs == 0..MaxResolutionArg

(* Arguments and bus data tried by Spec; SpecFactor and SpecLux are exhaustive. *)
FactorSamples == {30, 31, 69, 254, 255}
ByteSamples == {<<0, 0>>, <<1, 104>>, <<255, 255>>}

---------------------------------------------------------------------------
(* Bit operations on naturals, as Go's &, | and >> on unsigned values. *)
RECURSIVE BitAnd(_, _)
BitAnd(a, b) ==
    IF a = 0 \/ b = 0 THEN 0
    ELSE (a % 2) * (b % 2) + 2 * BitAnd(a \div 2, b \div 2)

RECURSIVE BitOr(_, _)
BitOr(a, b) ==
    IF a = 0 THEN b
    ELSE IF b = 0 THEN a
    ELSE (IF a % 2 = 1 \/ b % 2 = 1 THEN 1 ELSE 0) + 2 * BitOr(a \div 2, b \div 2)

RECURSIVE ShiftRight(_, _)
ShiftRight(a, n) == IF n = 0 THEN a ELSE ShiftRight(a \div 2, n - 1)

uint16(x) == x % 65536
(* uint32 holds every value the lux computation forms (at most 65535 * 5),  *)
(* so the conversion keeps its argument.                                    *)
uint32(x) == x

(* GetDefaultSensivityFactor *)
GetDefaultSensivityFactor == 69

(* wait * time.Duration(f) / time.Duration(d) on int64 nanoseconds.  The    *)
(* product stays far below 2^63 in Go; it is split here as                  *)
(* (w \div d) * f + ((w % d) * f) \div d, which is the same integer, so     *)
(* that no intermediate value leaves the model checker's integer range.     *)
ScaleDuration(w, f, d) == (w \div d) * f + ((w % d) * f) \div d

---------------------------------------------------------------------------
(* Bus events of one call, in the order the call performs them. *)
Write(b, ok) == [kind |-> "write", val |-> b, ok |-> ok]
Sleep(d) == [kind |-> "sleep", val |-> d, ok |-> TRUE]
Read(n, ok) == [kind |-> "read", val |-> n, ok |-> ok]

(* What a call returns: err is "nil", "bus" (the transport's error),        *)
(* "usage", "range" or "panic" (Go's integer divide by zero).  amb and wait *)
(* are the returned values, data the bytes a successful read delivered and  *)
(* divider <<d>> when the call reached the lux computation.                 *)
Return(op, arg, bus, err, amb, wait, data, divider) ==
    [op |-> op, arg |-> arg, bus |-> bus, err |-> err, amb |-> amb,
     wait |-> wait, data |-> data, divider |-> divider]

Writes(bus) == SelectSeq(bus, LAMBDA e : e.kind = "write")
Reads(bus) == SelectSeq(bus, LAMBDA e : e.kind = "read")
OkWrites(bus) == SelectSeq(bus, LAMBDA e : e.kind = "write" /\ e.ok)

(* The continuous measurement as the caller sees it (examples/example1.go: *)
(* Start, a loop of Fetch, PowerDown).  A Start that returned nil with a   *)
(* declared resolution opens it; Fetch calls leave it as it is; a Reset,   *)
(* PowerDown or PowerOn that returned nil while it is open ends it; any    *)
(* other call leaves no session.                                           *)
NoSession == [phase |-> "none", res |-> 0]

NextSession(c) ==
    IF c.op = "FetchMeasuredAmbientLight" THEN session
    ELSE IF /\ c.op = "StartMeasureAmbientLightContinuously"
            /\ c.err = "nil"
            /\ c.arg \in {LowResolution, HighResolution, HighestResolution}
        THEN [phase |-> "open", res |-> c.arg]
    ELSE IF /\ c.op \in {"Reset", "PowerDown", "PowerOn"}
            /\ c.err = "nil"
            /\ session.phase = "open"
        THEN [phase |-> "ended", res |-> session.res]
    ELSE NoSession

(* The history variables follow the call just made. *)
History(c) ==
    /\ session' = NextSession(c)
    /\ issued' = IF OkWrites(c.bus) = <<>> THEN issued
                 ELSE <<OkWrites(c.bus)[Len(OkWrites(c.bus))].val>>
    /\ issuer' = IF Writes(c.bus) = <<>> THEN issuer
                 ELSE [op |-> c.op, res |-> c.arg]
    /\ okFactor' = IF c.op = "ChangeSensivityFactor" /\ c.err = "nil"
                   THEN c.arg ELSE okFactor

---------------------------------------------------------------------------
(* NewBH1750 *)
NewBH1750 ==
    /\ lastCmd = 0
    /\ lastResolution = 0
    /\ factor = GetDefaultSensivityFactor
    /\ call = Return("NewBH1750", 0, <<>>, "nil", 0, 0, <<>>, <<>>)
    /\ issued = <<>>
    /\ issuer = [op |-> "none", res |-> 0]
    /\ okFactor = GetDefaultSensivityFactor
    /\ session = NoSession

(* Mutant of Reset: the datasheet rule enforced, the call refused while    *)
(* the last command is Power Down.                                         *)
Reset_RefusedInPowerDown(wOk) ==
    /\ call' = IF lastCmd = CMD_POWER_DOWN
               THEN Return("Reset", 0, <<>>, "usage", 0, 0, <<>>, <<>>)
               ELSE IF wOk
               THEN Return("Reset", 0, <<Write(CMD_RESET, TRUE), Sleep(Microsecond * 3)>>,
                           "nil", 0, 0, <<>>, <<>>)
               ELSE Return("Reset", 0, <<Write(CMD_RESET, FALSE)>>,
                           "bus", 0, 0, <<>>, <<>>)
    /\ lastCmd' = IF call'.err = "nil" THEN CMD_RESET ELSE lastCmd
    /\ UNCHANGED <<lastResolution, factor>>
    /\ History(call')

(* Reset *)
Reset(wOk) ==
    /\ call' = IF wOk
               THEN Return("Reset", 0, <<Write(CMD_RESET, TRUE), Sleep(Microsecond * 3)>>,
                           "nil", 0, 0, <<>>, <<>>)
               ELSE Return("Reset", 0, <<Write(CMD_RESET, FALSE)>>,
                           "bus", 0, 0, <<>>, <<>>)
    /\ lastCmd' = IF wOk THEN CMD_RESET ELSE lastCmd
    /\ UNCHANGED <<lastResolution, factor>>
    /\ History(call')

(* Mutant of PowerDown: lastCmd not updated. *)
PowerDown_NoStore(wOk) ==
    /\ call' = Return("PowerDown", 0, <<Write(CMD_POWER_DOWN, wOk)>>,
                      IF wOk THEN "nil" ELSE "bus", 0, 0, <<>>, <<>>)
    /\ UNCHANGED <<lastCmd, lastResolution, factor>>
    /\ History(call')

(* PowerDown *)
PowerDown(wOk) ==
    /\ call' = Return("PowerDown", 0, <<Write(CMD_POWER_DOWN, wOk)>>,
                      IF wOk THEN "nil" ELSE "bus", 0, 0, <<>>, <<>>)
    /\ lastCmd' = IF wOk THEN CMD_POWER_DOWN ELSE lastCmd
    /\ UNCHANGED <<lastResolution, factor>>
    /\ History(call')

(* PowerOn *)
PowerOn(wOk) ==
    /\ call' = Return("PowerOn", 0, <<Write(CMD_POWER_ON, wOk)>>,
                      IF wOk THEN "nil" ELSE "bus", 0, 0, <<>>, <<>>)
    /\ lastCmd' = IF wOk THEN CMD_POWER_ON ELSE lastCmd
    /\ UNCHANGED <<lastResolution, factor>>
    /\ History(call')

(* Mutants of getResolutionData: the continuous-mode command bytes in      *)
(* place of the one-time ones; the 16 ms typical time for LowResolution in *)
(* place of 24 ms.                                                         *)
getResolutionData_ContinuousCmd(resolution, f) ==
    LET base == CASE resolution = LowResolution ->
                       [cmd |-> CMD_CONTINUOUSLY_L_RES_MODE, divider |-> 1,
                        wait |-> Millisecond * 24]
                  [] resolution = HighResolution ->
                       [cmd |-> CMD_CONTINUOUSLY_H_RES_MODE, divider |-> 1,
                        wait |-> Millisecond * 120]
                  [] resolution = HighestResolution ->
                       [cmd |-> CMD_CONTINUOUSLY_H_RES_MODE2, divider |-> 2,
                        wait |-> Millisecond * 120]
                  [] OTHER -> [cmd |-> 0, divider |-> 0, wait |-> 0]
    IN [cmd |-> base.cmd,
        wait |-> ScaleDuration(base.wait, f, GetDefaultSensivityFactor),
        divider |-> base.divider]

getResolutionData_Low16ms(resolution, f) ==
    LET base == CASE resolution = LowResolution ->
                       [cmd |-> CMD_ONE_TIME_L_RES_MODE, divider |-> 1,
                        wait |-> Millisecond * 16]
                  [] resolution = HighResolution ->
                       [cmd |-> CMD_ONE_TIME_H_RES_MODE, divider |-> 1,
                        wait |-> Millisecond * 120]
                  [] resolution = HighestResolution ->
                       [cmd |-> CMD_ONE_TIME_H_RES_MODE2, divider |-> 2,
                        wait |-> Millisecond * 120]
                  [] OTHER -> [cmd |-> 0, divider |-> 0, wait |-> 0]
    IN [cmd |-> base.cmd,
        wait |-> ScaleDuration(base.wait, f, GetDefaultSensivityFactor),
        divider |-> base.divider]

(* Mutant of getResolutionData: the divider scaled with the factor, like   *)
(* the wait.                                                               *)
getResolutionData_FactorInDivider(resolution, f) ==
    LET base == CASE resolution = LowResolution ->
                       [cmd |-> CMD_ONE_TIME_L_RES_MODE, divider |-> 1,
                        wait |-> Millisecond * 24]
                  [] resolution = HighResolution ->
                       [cmd |-> CMD_ONE_TIME_H_RES_MODE, divider |-> 1,
                        wait |-> Millisecond * 120]
                  [] resolution = HighestResolution ->
                       [cmd |-> CMD_ONE_TIME_H_RES_MODE2, divider |-> 2,
                        wait |-> Millisecond * 120]
                  [] OTHER -> [cmd |-> 0, divider |-> 0, wait |-> 0]
    IN [cmd |-> base.cmd,
        wait |-> ScaleDuration(base.wait, f, GetDefaultSensivityFactor),
        divider |-> (base.divider * f) \div GetDefaultSensivityFactor]

(* getResolutionData: a resolution that is none of the three cases leaves   *)
(* cmd, wait and divider at their zero values.                              *)
getResolutionData(resolution, f) ==
    LET base == CASE resolution = LowResolution ->
                       [cmd |-> CMD_ONE_TIME_L_RES_MODE, divider |-> 1,
                        wait |-> Millisecond * 24]
                  [] resolution = HighResolution ->
                       [cmd |-> CMD_ONE_TIME_H_RES_MODE, divider |-> 1,
                        wait |-> Millisecond * 120]
                  [] resolution = HighestResolution ->
                       [cmd |-> CMD_ONE_TIME_H_RES_MODE2, divider |-> 2,
                        wait |-> Millisecond * 120]
                  [] OTHER -> [cmd |-> 0, divider |-> 0, wait |-> 0]
    IN [cmd |-> base.cmd,
        wait |-> ScaleDuration(base.wait, f, GetDefaultSensivityFactor),
        divider |-> base.divider]

(* Mutant of Lux: the product r * 5 formed in 16 bits instead of 32. *)
Lux_Uint16Product(b0, b1, divider) ==
    uint16((uint16(BitOr(uint16(uint16(b0) * 256), uint16(b1)) * 5) \div 6) \div divider)

(* amb := uint16(uint32(uint16(data.Data[0])<<8|uint16(data.Data[1])) * 5 / 6 / divider) *)
Lux(b0, b1, divider) ==
    uint16(((uint32(BitOr(uint16(uint16(b0) * 256), uint16(b1))) * 5) \div 6) \div divider)

(* MeasureAmbientLightOneTime *)
MeasureAmbientLightOneTime(resolution, wOk, rOk, b0, b1) ==
    LET rd == getResolutionData(resolution, factor)
        op == "MeasureAmbientLightOneTime"
        w == Write(rd.cmd, wOk)
    IN /\ lastCmd' = rd.cmd
       /\ lastResolution' = resolution
       /\ UNCHANGED factor
       /\ call' =
            IF ~wOk THEN
                Return(op, resolution, <<w>>, "bus", 0, 0, <<>>, <<>>)
            ELSE IF ~rOk THEN
                Return(op, resolution, <<w, Sleep(rd.wait), Read(2, FALSE)>>,
                       "bus", 0, 0, <<>>, <<>>)
            ELSE IF rd.divider = 0 THEN
                Return(op, resolution, <<w, Sleep(rd.wait), Read(2, TRUE)>>,
                       "panic", 0, 0, <<b0, b1>>, <<rd.divider>>)
            ELSE
                Return(op, resolution, <<w, Sleep(rd.wait), Read(2, TRUE)>>,
                       "nil", Lux(b0, b1, rd.divider), 0, <<b0, b1>>, <<rd.divider>>)
       /\ History(call')

(* Mutant of StartMeasureAmbientLightContinuously: lastResolution not      *)
(* stored.                                                                 *)
StartMeasureAmbientLightContinuously_NoStoreResolution(resolution, wOk) ==
    LET rd == getResolutionData(resolution, factor)
        op == "StartMeasureAmbientLightContinuously"
        w == Write(rd.cmd, wOk)
    IN /\ lastCmd' = rd.cmd
       /\ UNCHANGED <<lastResolution, factor>>
       /\ call' =
            IF ~wOk THEN
                Return(op, resolution, <<w>>, "bus", 0, 0, <<>>, <<>>)
            ELSE
                Return(op, resolution, <<w, Sleep(rd.wait)>>, "nil", 0, rd.wait,
                       <<>>, <<>>)
       /\ History(call')

(* StartMeasureAmbientLightContinuously *)
StartMeasureAmbientLightContinuously(resolution, wOk) ==
    LET rd == getResolutionData(resolution, factor)
        op == "StartMeasureAmbientLightContinuously"
        w == Write(rd.cmd, wOk)
    IN /\ lastCmd' = rd.cmd
       /\ lastResolution' = resolution
       /\ UNCHANGED factor
       /\ call' =
            IF ~wOk THEN
                Return(op, resolution, <<w>>, "bus", 0, 0, <<>>, <<>>)
            ELSE
                Return(op, resolution, <<w, Sleep(rd.wait)>>, "nil", 0, rd.wait,
                       <<>>, <<>>)
       /\ History(call')

(* FetchMeasuredAmbientLight *)
FetchMeasuredAmbientLight(rOk, b0, b1) ==
    LET rd == getResolutionData(lastResolution, factor)
        op == "FetchMeasuredAmbientLight"
    IN /\ UNCHANGED <<lastCmd, lastResolution, factor>>
       /\ call' =
            IF lastCmd # rd.cmd THEN
                Return(op, 0, <<>>, "usage", 0, 0, <<>>, <<>>)
            ELSE IF ~rOk THEN
                Return(op, 0, <<Read(2, FALSE)>>, "bus", 0, 0, <<>>, <<>>)
            ELSE IF rd.divider = 0 THEN
                Return(op, 0, <<Read(2, TRUE)>>, "panic", 0, 0, <<b0, b1>>,
                       <<rd.divider>>)
            ELSE
                Return(op, 0, <<Read(2, TRUE)>>, "nil", Lux(b0, b1, rd.divider), 0,
                       <<b0, b1>>, <<rd.divider>>)
       /\ History(call')

(* Mutants of FactorOutOfRange: the limits themselves rejected; the upper  *)
(* limit not checked.                                                      *)
FactorOutOfRange_Inclusive(f) == f <= minValue \/ f >= maxValue

FactorOutOfRange_NoUpper(f) == f < minValue

(* factor < minValue || factor > maxValue *)
FactorOutOfRange(f) == f < minValue \/ f > maxValue

(* Mutant of FactorHigh: shift by 4 instead of 5. *)
FactorHigh_Shift4(f) == ShiftRight(BitAnd(f, 224), 4)

(* high := (factor & 0xE0) >> 5 *)
FactorHigh(f) == ShiftRight(BitAnd(f, 224), 5)

(* low := (factor & 0x1F) *)
FactorLow(f) == BitAnd(f, 31)

(* Mutants of ChangeSensivityFactor: the error of the first write is       *)
(* overwritten by the second write's; the factor is stored as soon as the  *)
(* first write succeeded.                                                  *)
ChangeSensivityFactor_IgnoreFirstError(f, wOk1, wOk2) ==
    LET op == "ChangeSensivityFactor"
        w1 == Write(BitOr(CMD_CHANGE_MEAS_TIME_HIGH, FactorHigh(f)), wOk1)
        w2 == Write(BitOr(CMD_CHANGE_MEAS_TIME_LOW, FactorLow(f)), wOk2)
    IN /\ UNCHANGED <<lastCmd, lastResolution>>
       /\ call' =
            IF FactorOutOfRange(f) THEN
                Return(op, f, <<>>, "range", 0, 0, <<>>, <<>>)
            ELSE IF ~wOk2 THEN
                Return(op, f, <<w1, w2>>, "bus", 0, 0, <<>>, <<>>)
            ELSE
                Return(op, f, <<w1, w2>>, "nil", 0, 0, <<>>, <<>>)
       /\ factor' = IF call'.err = "nil" THEN f ELSE factor
       /\ History(call')

ChangeSensivityFactor_StoreAfterFirstWrite(f, wOk1, wOk2) ==
    LET op == "ChangeSensivityFactor"
        w1 == Write(BitOr(CMD_CHANGE_MEAS_TIME_HIGH, FactorHigh(f)), wOk1)
        w2 == Write(BitOr(CMD_CHANGE_MEAS_TIME_LOW, FactorLow(f)), wOk2)
    IN /\ UNCHANGED <<lastCmd, lastResolution>>
       /\ call' =
            IF FactorOutOfRange(f) THEN
                Return(op, f, <<>>, "range", 0, 0, <<>>, <<>>)
            ELSE IF ~wOk1 THEN
                Return(op, f, <<w1>>, "bus", 0, 0, <<>>, <<>>)
            ELSE IF ~wOk2 THEN
                Return(op, f, <<w1, w2>>, "bus", 0, 0, <<>>, <<>>)
            ELSE
                Return(op, f, <<w1, w2>>, "nil", 0, 0, <<>>, <<>>)
       /\ factor' = IF OkWrites(call'.bus) # <<>> THEN f ELSE factor
       /\ History(call')

(* ChangeSensivityFactor *)
ChangeSensivityFactor(f, wOk1, wOk2) ==
    LET op == "ChangeSensivityFactor"
        w1 == Write(BitOr(CMD_CHANGE_MEAS_TIME_HIGH, FactorHigh(f)), wOk1)
        w2 == Write(BitOr(CMD_CHANGE_MEAS_TIME_LOW, FactorLow(f)), wOk2)
    IN /\ UNCHANGED <<lastCmd, lastResolution>>
       /\ call' =
            IF FactorOutOfRange(f) THEN
                Return(op, f, <<>>, "range", 0, 0, <<>>, <<>>)
            ELSE IF ~wOk1 THEN
                Return(op, f, <<w1>>, "bus", 0, 0, <<>>, <<>>)
            ELSE IF ~wOk2 THEN
                Return(op, f, <<w1, w2>>, "bus", 0, 0, <<>>, <<>>)
            ELSE
                Return(op, f, <<w1, w2>>, "nil", 0, 0, <<>>, <<>>)
       /\ factor' = IF call'.err = "nil" THEN f ELSE factor
       /\ History(call')

---------------------------------------------------------------------------
(* The calls a client can make.  Spec draws every argument and every bus   *)
(* outcome from the sample sets above.                                     *)
NoInput == [factor |-> 0, b0 |-> 0, b1 |-> 0]

CallReset ==
    /\ \E wOk \in BOOLEAN : Reset(wOk)
    /\ UNCHANGED input

CallPowerDown ==
    /\ \E wOk \in BOOLEAN : PowerDown(wOk)
    /\ UNCHANGED input

CallPowerOn ==
    /\ \E wOk \in BOOLEAN : PowerOn(wOk)
    /\ UNCHANGED input

CallMeasureOneTime ==
    /\ \E r \in ResolutionArgs, wOk, rOk \in BOOLEAN, d \in ByteSamples :
          MeasureAmbientLightOneTime(r, wOk, rOk, d[1], d[2])
    /\ UNCHANGED input

CallStartContinuously ==
    /\ \E r \in ResolutionArgs, wOk \in BOOLEAN :
          StartMeasureAmbientLightContinuously(r, wOk)
    /\ UNCHANGED input

CallFetch ==
    /\ \E rOk \in BOOLEAN, d \in ByteSamples :
          FetchMeasuredAmbientLight(rOk, d[1], d[2])
    /\ UNCHANGED input

CallChangeSensivityFactor ==
    /\ \E f \in FactorSamples, wOk1, wOk2 \in BOOLEAN :
          ChangeSensivityFactor(f, wOk1, wOk2)
    /\ UNCHANGED input

(* Spec: any sequence of calls on a fresh driver. *)
Init == NewBH1750 /\ input = NoInput

Next ==
    \/ CallReset
    \/ CallPowerDown
    \/ CallPowerOn
    \/ CallMeasureOneTime
    \/ CallStartContinuously
    \/ CallFetch
    \/ CallChangeSensivityFactor

Spec == Init /\ [][Next]_vars

---------------------------------------------------------------------------
(* SpecFactor: the factor passed to ChangeSensivityFactor is any byte,     *)
(* fixed by the initial state; measurements run between the changes.       *)
InitFactor ==
    /\ NewBH1750
    /\ input \in [factor : Byte, b0 : {1}, b1 : {104}]

FactorChange ==
    /\ \E wOk1, wOk2 \in BOOLEAN : ChangeSensivityFactor(input.factor, wOk1, wOk2)
    /\ UNCHANGED input

FactorMeasure ==
    /\ \E r \in ResolutionArgs, wOk, rOk \in BOOLEAN :
          MeasureAmbientLightOneTime(r, wOk, rOk, input.b0, input.b1)
    /\ UNCHANGED input

FactorStart ==
    /\ \E r \in ResolutionArgs, wOk \in BOOLEAN :
          StartMeasureAmbientLightContinuously(r, wOk)
    /\ UNCHANGED input

NextFactor ==
    \/ FactorChange
    \/ FactorMeasure
    \/ FactorStart

SpecFactor == InitFactor /\ [][NextFactor]_vars

---------------------------------------------------------------------------
(* SpecLux: the two bytes the bus delivers are any pair of bytes, fixed by *)
(* the initial state; the resolution is one of the three declared modes    *)
(* and every transfer succeeds.                                            *)
InitLux ==
    /\ NewBH1750
    /\ input \in [factor : {0}, b0 : Byte, b1 : Byte]

LuxMeasure ==
    /\ \E r \in LowResolution..HighestResolution :
          MeasureAmbientLightOneTime(r, TRUE, TRUE, input.b0, input.b1)
    /\ UNCHANGED input

LuxFetch ==
    /\ FetchMeasuredAmbientLight(TRUE, input.b0, input.b1)
    /\ UNCHANGED input

NextLux ==
    \/ LuxMeasure
    \/ LuxFetch

SpecLux == InitLux /\ [][NextLux]_vars

---------------------------------------------------------------------------
(* Names used by the properties below. *)
IsMeasure == call.op = "MeasureAmbientLightOneTime"
IsStart == call.op = "StartMeasureAmbientLightContinuously"
IsFetch == call.op = "FetchMeasuredAmbientLight"
IsChange == call.op = "ChangeSensivityFactor"
Declared == {1, 2, 3}

(* C1: FetchMeasuredAmbientLight fails with the usage error and reads      *)
(* nothing from the bus unless the most recent call that issued a command  *)
(* was a StartMeasureAmbientLightContinuously whose resolution is the      *)
(* stored lastResolution.                                                  *)
C1_FetchNeedsStart ==
    (IsFetch /\ ~(issuer.op = "StartMeasureAmbientLightContinuously"
                  /\ issuer.res = lastResolution))
        => (call.err = "usage" /\ Reads(call.bus) = <<>>)

(* C2: StartMeasureAmbientLightContinuously writes exactly one byte, the   *)
(* continuous-mode command of the resolution (Low 0x13, High 0x10, Highest *)
(* 0x11), and after it succeeds lastCmd is that byte.                      *)
C2_StartWritesContinuousCmd ==
    (IsStart /\ call.arg \in Declared) =>
        LET cmd == CASE call.arg = 1 -> 19 [] call.arg = 2 -> 16 [] call.arg = 3 -> 17
        IN /\ Len(Writes(call.bus)) = 1
           /\ Writes(call.bus)[1].val = cmd
           /\ call.err = "nil" => lastCmd = cmd

(* C3: MeasureAmbientLightOneTime first writes the one-time command byte   *)
(* of the resolution (Low 0x23, High 0x20, Highest 0x21), exactly once;    *)
(* only after a successful write it sleeps and then reads 2 bytes, once;   *)
(* it returns without error only if the write and the read both succeeded. *)
C3_OneTimeSequence ==
    (IsMeasure /\ call.arg \in Declared) =>
        LET cmd == CASE call.arg = 1 -> 35 [] call.arg = 2 -> 32 [] call.arg = 3 -> 33
            bus == call.bus
        IN /\ Len(bus) \in {1, 3}
           /\ bus[1].kind = "write" /\ bus[1].val = cmd
           /\ Len(Writes(bus)) = 1
           /\ Len(bus) = 3 <=> bus[1].ok
           /\ Len(bus) = 3 =>
                 /\ bus[2].kind = "sleep"
                 /\ bus[3].kind = "read" /\ bus[3].val = 2
           /\ call.err = "nil" => (bus[1].ok /\ Len(bus) = 3 /\ bus[3].ok)

C3_Witness ==
    /\ IsMeasure /\ call.arg = 3 /\ call.err = "nil"
    /\ call.bus[1].val = 33 /\ call.bus[3].ok

(* C4: for every two bytes read and every declared resolution the lux      *)
(* value returned by MeasureAmbientLightOneTime and by                     *)
(* FetchMeasuredAmbientLight is floor(floor(r*5/6)/d), r = b0*256 + b1,    *)
(* d = 2 for Highest and 1 otherwise; it is at most 54612, and r = 360     *)
(* with d = 1 gives 300.                                                   *)
C4_LuxFormula ==
    ((IsMeasure \/ IsFetch) /\ call.err = "nil") =>
        LET r == (call.data[1] * 256) + call.data[2]
            d == IF lastResolution = 3 THEN 2 ELSE 1
        IN /\ lastResolution \in Declared
           /\ call.data = <<input.b0, input.b1>>
           /\ call.amb = ((r * 5) \div 6) \div d
           /\ call.amb <= 54612
           /\ (r = 360 /\ d = 1) => call.amb = 300

C4_Witness ==
    /\ IsFetch /\ call.err = "nil" /\ lastResolution = 2
    /\ call.data = <<1, 104>> /\ call.amb = 300

(* C5: ChangeSensivityFactor returns the range error exactly when the      *)
(* factor is below 31 or above 254; a factor in range whose two writes     *)
(* succeed is accepted; a rejected call writes nothing to the bus and      *)
(* leaves factor, lastCmd and lastResolution as they were.                 *)
C5_RangeCheck ==
    /\ [](IsChange =>
            /\ (call.err = "range") <=> (call.arg < 31 \/ call.arg > 254)
            /\ call.err = "range" => call.bus = <<>>
            /\ (call.arg \in 31..254 /\ Len(OkWrites(call.bus)) = 2)
                  => (call.err = "nil" /\ factor = call.arg))
    /\ [][(call'.op = "ChangeSensivityFactor" /\ call'.err = "range")
            => UNCHANGED <<lastCmd, lastResolution, factor>>]_vars

C5_Witness ==
    /\ IsChange /\ call.arg = 255 /\ call.err = "range"
    /\ lastCmd = 35 /\ lastResolution = 1 /\ factor = GetDefaultSensivityFactor

(* C6: a successful ChangeSensivityFactor(f), f in 31..254, writes exactly *)
(* two bytes, 0x40 + f div 32 and then 0x60 + f mod 32; they recombine to  *)
(* f, lie in 0x40..0x47 and 0x60..0x7F, and the stored factor is f.        *)
C6_FactorSplit ==
    (IsChange /\ call.err = "nil") =>
        LET f == call.arg
            bus == call.bus
        IN /\ f \in 31..254
           /\ Len(bus) = 2
           /\ bus[1].kind = "write" /\ bus[2].kind = "write"
           /\ bus[1].val = 64 + (f \div 32)
           /\ bus[2].val = 96 + (f % 32)
           /\ ((bus[1].val - 64) * 32) + (bus[2].val - 96) = f
           /\ bus[1].val \in 64..71
           /\ bus[2].val \in 96..127
           /\ factor = f

C6_Witness ==
    /\ IsChange /\ call.err = "nil" /\ call.arg = 138
    /\ call.bus[1].val = 68 /\ call.bus[2].val = 106 /\ factor = 138

(* C7: the time MeasureAmbientLightOneTime sleeps, and the time            *)
(* StartMeasureAmbientLightContinuously sleeps and returns, is             *)
(* baseWait * f / 69 nanoseconds (24 ms for Low, 120 ms for High and       *)
(* Highest), f the factor of the last ChangeSensivityFactor that returned  *)
(* nil, 69 if none; a Start whose write fails returns 0 with the error.    *)
(* With n = ms * f, n * 10^6 div 69 is written                             *)
(* (n div 69) * 10^6 + ((n mod 69) * 10^6) div 69.                         *)
C7_WaitScaling ==
    ((IsMeasure \/ IsStart) /\ call.arg \in Declared) =>
        LET n == (IF call.arg = 1 THEN 24 ELSE 120) * okFactor
            expected == ((n \div 69) * 1000000) + (((n % 69) * 1000000) \div 69)
            bus == call.bus
        IN /\ bus[1].ok =>
                 /\ Len(bus) >= 2
                 /\ bus[2].kind = "sleep" /\ bus[2].val = expected
           /\ (IsStart /\ bus[1].ok) => (call.err = "nil" /\ call.wait = expected)
           /\ (IsStart /\ ~bus[1].ok) => (call.err = "bus" /\ call.wait = 0)

C7_Witness ==
    /\ IsStart /\ call.err = "nil" /\ call.arg = 1
    /\ okFactor = 138 /\ call.wait = 48000000

(* C8: the stored factor is always in 31..254; it is 69 on the fresh       *)
(* driver and GetDefaultSensivityFactor is 69.                             *)
C8_FactorInRange ==
    /\ factor \in 31..254
    /\ call.op = "NewBH1750" => factor = 69
    /\ GetDefaultSensivityFactor = 69

C8_Witness ==
    /\ factor = 254
    /\ IsChange /\ call.arg = 255 /\ call.err = "range"

(* C9: lastCmd is the byte of the most recent write that succeeded on the  *)
(* bus, whichever call issued it.                                          *)
C9_LastCmdIsLastIssued ==
    issued # <<>> => lastCmd = issued[1]

(* C10: whenever MeasureAmbientLightOneTime or FetchMeasuredAmbientLight   *)
(* reaches the lux computation, the divider is 1 or 2, never 0.            *)
C10_DividerNeverZero ==
    call.divider # <<>> => call.divider[1] \in {1, 2}

(* C11: no call goes on after a bus failure: a failed write or read is the *)
(* last transfer of its call and the call returns the bus error, which it  *)
(* returns for no other reason; Reset, PowerDown, PowerOn and Start make   *)
(* at most one write and no read, MeasureAmbientLightOneTime at most one   *)
(* write and one read, FetchMeasuredAmbientLight no write and at most one  *)
(* read, ChangeSensivityFactor at most two writes and no read.             *)
C11_NoRetry ==
    LET bus == call.bus
        nw == Len(Writes(bus))
        nr == Len(Reads(bus))
    IN /\ \A i \in 1..Len(bus) :
              ~bus[i].ok => (i = Len(bus) /\ call.err = "bus")
       /\ call.err = "bus" => (Len(bus) >= 1 /\ ~bus[Len(bus)].ok)
       /\ call.op \in {"Reset", "PowerDown", "PowerOn"} => (nw = 1 /\ nr = 0)
       /\ IsStart => (nw = 1 /\ nr = 0)
       /\ IsMeasure => (nw = 1 /\ nr <= 1)
       /\ IsFetch => (nw = 0 /\ nr <= 1)
       /\ IsChange => (nw <= 2 /\ nr = 0)

C11_Witness ==
    /\ IsChange /\ call.err = "bus"
    /\ Len(call.bus) = 1 /\ ~call.bus[1].ok

(* C12: a call that returns an error leaves lastCmd, lastResolution and    *)
(* factor as they were before the call.                                    *)
C12_ErrorLeavesState ==
    [][call'.err \in {"bus", "usage", "range"}
        => UNCHANGED <<lastCmd, lastResolution, factor>>]_vars

(* C13: the stored factor changes only in a ChangeSensivityFactor whose    *)
(* two writes both succeeded, and then to that call's argument; such a     *)
(* call is exactly one that returns nil, so the stored factor is always    *)
(* the factor of the last call whose two writes succeeded, 69 if none.     *)
C13_FactorOnlyAfterBothWrites ==
    /\ [](/\ factor = okFactor
          /\ IsChange => ((call.err = "nil") <=> (Len(OkWrites(call.bus)) = 2)))
    /\ [][factor' # factor =>
            /\ call'.op = "ChangeSensivityFactor"
            /\ Len(OkWrites(call'.bus)) = 2
            /\ factor' = call'.arg]_vars

C13_Witness ==
    /\ IsChange /\ call.arg = 254 /\ call.err = "bus"
    /\ Len(call.bus) = 2 /\ call.bus[1].ok /\ ~call.bus[2].ok
    /\ factor = 31

(* C14: every FetchMeasuredAmbientLight of an open session (a Start that   *)
(* returned nil with a declared resolution r, followed by Fetch calls      *)
(* only) is accepted: it makes one 2-byte read and no write, returns nil   *)
(* exactly when the read succeeded, decodes with the divider of r, and     *)
(* leaves lastCmd, lastResolution and factor unchanged.                    *)
C14_FetchInSession ==
    /\ []((IsFetch /\ session.phase = "open") =>
            LET d == IF session.res = 3 THEN 2 ELSE 1
                r == (call.data[1] * 256) + call.data[2]
            IN /\ call.err \in {"nil", "bus"}
               /\ Len(call.bus) = 1
               /\ call.bus[1].kind = "read" /\ call.bus[1].val = 2
               /\ (call.err = "nil") <=> call.bus[1].ok
               /\ call.err = "nil" =>
                     /\ call.divider = <<d>>
                     /\ call.amb = ((r * 5) \div 6) \div d
               /\ lastResolution = session.res)
    /\ [][(call'.op = "FetchMeasuredAmbientLight" /\ session'.phase = "open")
            => UNCHANGED <<lastCmd, lastResolution, factor>>]_vars

C14_Witness ==
    /\ IsFetch /\ session = [phase |-> "open", res |-> 3]
    /\ call.err = "nil" /\ call.data = <<255, 255>>
    /\ call.divider = <<2>> /\ call.amb = 27306

(* C15: once a Reset, PowerDown or PowerOn that returned nil has ended an  *)
(* open session, FetchMeasuredAmbientLight returns the usage error and     *)
(* reads nothing from the bus.                                             *)
C15_FetchAfterSessionEnd ==
    (IsFetch /\ session.phase = "ended") =>
        (call.err = "usage" /\ call.bus = <<>>)

C15_Witness ==
    /\ IsFetch /\ session = [phase |-> "ended", res |-> 2]
    /\ call.err = "usage" /\ lastCmd = CMD_POWER_DOWN /\ lastResolution = 2

(* C16: Reset is not state-checked.  Every Reset call, whatever the state  *)
(* it is made in, writes the single byte 0x07 and nothing else; if the     *)
(* write succeeds it returns nil and lastCmd becomes 0x07, if it fails it  *)
(* returns the bus error and lastCmd keeps its value.  Right after a       *)
(* successful PowerDown a Reset that succeeds is possible.                 *)
C16_ResetUnchecked ==
    /\ []((call.op = "PowerDown" /\ call.err = "nil") =>
            /\ lastCmd = 0
            /\ ENABLED (CallReset /\ call'.err = "nil" /\ lastCmd' = 7))
    /\ [][call'.op = "Reset" =>
            /\ Len(call'.bus) >= 1
            /\ call'.bus[1].kind = "write" /\ call'.bus[1].val = 7
            /\ Len(Writes(call'.bus)) = 1 /\ Reads(call'.bus) = <<>>
            /\ call'.bus[1].ok => (call'.err = "nil" /\ lastCmd' = 7)
            /\ ~call'.bus[1].ok => (call'.err = "bus" /\ lastCmd' = lastCmd)]_vars

C16_Witness ==
    /\ call.op = "Reset" /\ call.err = "nil"
    /\ lastCmd = 7 /\ issued = <<7>> /\ session.phase = "ended"

(* C17: the lux value MeasureAmbientLightOneTime returns depends only on   *)
(* the resolution argument and the two bytes read: whatever calls came     *)
(* before and whatever factor is stored, it is the value a second driver,  *)
(* freshly constructed (factor 69, no call made), returns for the same     *)
(* resolution and the same two bytes.                                      *)
C17_LuxOfFreshDriver ==
    (IsMeasure /\ call.err = "nil") =>
        LET fresh == getResolutionData(call.arg, GetDefaultSensivityFactor)
        IN /\ fresh.divider # 0
           /\ call.amb = Lux(call.data[1], call.data[2], fresh.divider)

C17_Witness ==
    /\ IsMeasure /\ call.err = "nil" /\ call.arg = 3
    /\ factor = 254 /\ okFactor = 254 /\ issued = <<33>>
    /\ call.data = <<255, 255>> /\ call.amb = 27306
===========================================================================
